---- MODULE Spec2Model ----
(***************************************************************************)
(* Model of the relayer in src/scripts/relayer.js: main() starts one       *)
(* ChainListener per activated chain; each listener's ValueSet callback    *)
(* deduplicates by event id, asks the proof service for a proof, polls for *)
(* it and submits it to the destination chain.                             *)
(*                                                                         *)
(* JavaScript runs a callback without interruption between two awaits, so  *)
(* every action below is one such run: the continuation of one await up to *)
(* the next await (or to the end of the callback).                         *)
(***************************************************************************)
EXTENDS Integers, Sequences, FiniteSets

(***************************************************************************)
(* Bounds of the model.                                                    *)
(***************************************************************************)
\* number of callback invocations (event deliveries) the subscriptions make
MaxDeliveries == 2

Slots == 1..MaxDeliveries

(***************************************************************************)
(* Program constants.                                                      *)
(***************************************************************************)
\* relayer.js:238  if (attempts >= 10) throw
MaxAttempts == 10
\* relayer.js:236  first-poll delay, in ms
FirstDelay == 10000
\* relayer.js:236  later-poll delay, in ms
NextDelay == 5000
\* relayer.js:218  the only accepted HTTP status of the proof request
HttpOk == 200
\* relayer.js:290, 296  index argument of setValueFromSource
IndexArg == 0

(***************************************************************************)
(* Configuration: CHAINS (relayer.js:20-24), in Object.entries order.      *)
(***************************************************************************)
CHAINS ==
  << [name |-> "optimism-sepolia", chainId |-> 11155420],
     [name |-> "base-sepolia",     chainId |-> 84532] >>

ChainKeys == 1..Len(CHAINS)

(***************************************************************************)
(* Number.prototype.toString / BigInt.prototype.toString (relayer.js:176,  *)
(* 180): the decimal digits of a non-negative integer.                     *)
(***************************************************************************)
RECURSIVE toString(_)
toString(n) ==
  IF n < 10 THEN << n >> ELSE Append(toString(n \div 10), n % 10)

(***************************************************************************)
(* parseInt (relayer.js:206) of a string of decimal digits.                *)
(***************************************************************************)
RECURSIVE parseInt(_)
parseInt(str) ==
  IF Len(str) = 0 THEN 0
  ELSE 10 * parseInt(SubSeq(str, 1, Len(str) - 1)) + str[Len(str)]

(***************************************************************************)
(* Object.values(CHAINS).find(...) (relayer.js:179-181): the key of the    *)
(* first chain whose chainId prints as destinationChainId, 0 (undefined)   *)
(* when there is none.                                                     *)
(***************************************************************************)
\* as FindDestinationChain, but falling back to the first chain
FindDestinationChainOrFirst(destinationChainId) ==
  LET matches == { k \in ChainKeys :
                     toString(CHAINS[k].chainId) = destinationChainId }
  IN  IF matches = {} THEN 1
      ELSE CHOOSE k \in matches : \A j \in matches : k <= j

FindDestinationChain(destinationChainId) ==
  LET matches == { k \in ChainKeys :
                     toString(CHAINS[k].chainId) = destinationChainId }
  IN  IF matches = {} THEN 0
      ELSE CHOOSE k \in matches : \A j \in matches : k <= j

(***************************************************************************)
(* ethers.toUtf8String (relayer.js:106) throws on bytes that are not       *)
(* well-formed UTF-8: a lead byte must be followed by its continuation     *)
(* bytes (0x80..0xBF), and a continuation or 0xF8..0xFF byte cannot lead.  *)
(***************************************************************************)
ContinuationBytes(b) ==
  IF b < 128 THEN 0
  ELSE IF b >= 192 /\ b < 224 THEN 1
  ELSE IF b >= 224 /\ b < 240 THEN 2
  ELSE IF b >= 240 /\ b < 248 THEN 3
  ELSE -1

\* a decoder that replaces what it cannot decode instead of throwing
Utf8Lenient(bytes) == TRUE

RECURSIVE Utf8Valid(_)
Utf8Valid(bytes) ==
  IF Len(bytes) = 0 THEN TRUE
  ELSE LET n == ContinuationBytes(bytes[1])
       IN  /\ n >= 0
           /\ Len(bytes) >= n + 1
           /\ \A i \in 2..(n + 1) : bytes[i] >= 128 /\ bytes[i] < 192
           /\ Utf8Valid(SubSeq(bytes, n + 2, Len(bytes)))

(***************************************************************************)
(* The logs the source contracts emit (the arguments of the callback,      *)
(* relayer.js:65-73).  Two deliveries of one log carry the same fields.    *)
(***************************************************************************)
Logs ==
  { [blockHash |-> "0xb1", blockNumber |-> 100, transactionHash |-> "0xt1",
     index |-> 0, positionInBlock |-> 3,
     value |-> << 104, 105 >>, destinationChainId |-> 84532],
    [blockHash |-> "0xb1", blockNumber |-> 100, transactionHash |-> "0xt1",
     index |-> 1, positionInBlock |-> 3,
     value |-> << 195, 169 >>, destinationChainId |-> 999],
    [blockHash |-> "0xb2", blockNumber |-> 101, transactionHash |-> "0xt2",
     index |-> 0, positionInBlock |-> 0,
     value |-> << 255 >>, destinationChainId |-> 84532] }

\* relayer.js:76  `${blockHash}-${transactionHash}-${index}`
EventId(log) == << log.blockHash, log.transactionHash, log.index >>

NoLog == [blockHash |-> "", blockNumber |-> 0, transactionHash |-> "",
          index |-> 0, positionInBlock |-> 0,
          value |-> << >>, destinationChainId |-> 0]

(***************************************************************************)
(* A proof is a base64 string; it is kept as the sequence of its           *)
(* characters.  <<>> is an absent (undefined) or empty proof, both of      *)
(* which `!proof` takes as false (relayer.js:237).                         *)
(***************************************************************************)
NoProof == << >>

\* "AQID": the bytes 1, 2, 3
ProofString == << "A", "Q", "I", "D" >>

\* the proof the proof service has for a job, as it sends it (base64)
VARIABLE serviceProof

(***************************************************************************)
(* What the outside world can answer.                                      *)
(***************************************************************************)
\* a chain RPC call: it returns or it throws
RpcResults == { "ok", "throw" }

\* axios.post of receipt_requestProof: it throws or returns an HTTP status
RequestResponses ==
  { [threw |-> TRUE,  status |-> 0],
    [threw |-> FALSE, status |-> HttpOk],
    [threw |-> FALSE, status |-> HttpOk + 2] }

\* axios.post of receipt_queryProof: it throws, or returns a body without a
\* result object, or a result {status, proof?}
PollResponses ==
  { [threw |-> TRUE,  hasResult |-> FALSE, status |-> "",         proof |-> NoProof],
    [threw |-> FALSE, hasResult |-> FALSE, status |-> "",         proof |-> NoProof],
    [threw |-> FALSE, hasResult |-> TRUE,  status |-> "pending",  proof |-> NoProof],
    [threw |-> FALSE, hasResult |-> TRUE,  status |-> "failed",   proof |-> NoProof],
    [threw |-> FALSE, hasResult |-> TRUE,  status |-> "complete", proof |-> serviceProof] }

\* `let proofResponse;` (relayer.js:234): undefined
NoResponse == [threw |-> FALSE, hasResult |-> FALSE, status |-> "", proof |-> NoProof]

(***************************************************************************)
(* State.                                                                  *)
(***************************************************************************)
VARIABLES
  mainPc,               \* where main() is: "loop", "getBlockNumber", "watching", "exited"
  mainIdx,              \* index in Object.entries(CHAINS) of the listener main() is at
  subscribed,           \* chains whose contract.on("ValueSet", callback) is registered
  subscriptions,        \* the chains of the contract.on calls, in the order of the calls
  processedEvents,      \* processedEvents[c]: the Set of listener c (relayer.js:42)
  cb,                   \* cb[s]: the s-th invocation of a ValueSet callback
  jobs,                 \* proof service: the params of every accepted request; a jobId is an index
  unhandledRejections   \* rejections that reached process.on("unhandledRejection")

vars == << mainPc, mainIdx, subscribed, subscriptions, serviceProof, processedEvents, cb,
          jobs, unhandledRejections >>

NoCalls == [getBlock |-> 0, getReceipt |-> 0, requestProof |-> 0, queryProof |-> 0,
            estimateGas |-> 0, send |-> 0]

(***************************************************************************)
(* A callback invocation that did not happen yet.  pc is the await the     *)
(* invocation is suspended at.  attempts, delay, jobId, proofResponse,     *)
(* proofInBytes and destinationChain are the locals of                     *)
(* handleValueSetEvent; the other fields record what the invocation did:   *)
(*   seen        what processedEvents.has(eventId) answered at its start   *)
(*   concurrent  the invocations that were unfinished when it started      *)
(*   calls       the calls it issued, by kind                              *)
(*   slept       the delay of its last setTimeout                          *)
(*   polledJob   the params of its last receipt_queryProof                 *)
(*   proofAt     the number of the poll whose response carried a proof     *)
(*   estimatedWith, sentWith  the arguments of its estimateGas call and of *)
(*               its setValueFromSource call                               *)
(*   confirmed   tx.wait returned the receipt of its transaction           *)
(*   outcome     how it ended; error: what console.error was given         *)
(***************************************************************************)
IdleCb ==
  [pc |-> "idle", chain |-> 0, log |-> NoLog, seen |-> FALSE, concurrent |-> {},
   destinationChain |-> 0, jobId |-> 0, attempts |-> 0, delay |-> 0,
   proofResponse |-> NoResponse, proofInBytes |-> << >>,
   calls |-> NoCalls, slept |-> 0, polledJob |-> 0, proofAt |-> 0,
   confirmed |-> FALSE, estimatedWith |-> << >>, sentWith |-> << >>,
   outcome |-> "none", error |-> "none"]

Alive == mainPc # "exited"

InFlight(s) == cb[s].pc \notin { "idle", "done" }

\* the number of callback invocations so far
Delivered == Cardinality({ s \in Slots : cb[s].pc # "idle" })

Init ==
  /\ mainPc = "loop"
  /\ mainIdx = 1
  /\ subscribed = {}
  /\ subscriptions = << >>
  /\ serviceProof = ProofString
  /\ processedEvents = [c \in ChainKeys |-> {}]
  /\ cb = [s \in Slots |-> IdleCb]
  /\ jobs = << >>
  /\ unhandledRejections = 0

(***************************************************************************)
(* main (relayer.js:344-358) and ChainListener.start (relayer.js:45-63).   *)
(***************************************************************************)
\* a loop that does not await listener.start() and so goes on to the next
\* chain while the start of the previous one is pending
MainLoopNoAwait ==
  /\ mainPc = "loop"
  /\ mainPc' = IF mainIdx <= Len(CHAINS) THEN "loop" ELSE "watching"
  /\ mainIdx' = IF mainIdx <= Len(CHAINS) THEN mainIdx + 1 ELSE mainIdx
  /\ UNCHANGED << subscribed, subscriptions, serviceProof, processedEvents, cb, jobs,
                  unhandledRejections >>

\* for (...) { new ChainListener(...); await listener.start() } up to the
\* await of getBlockNumber; past the last chain main() returns
MainLoop ==
  /\ mainPc = "loop"
  /\ mainPc' = IF mainIdx <= Len(CHAINS) THEN "getBlockNumber" ELSE "watching"
  /\ processedEvents' =
       IF mainIdx <= Len(CHAINS)
       THEN [processedEvents EXCEPT ![mainIdx] = {}]
       ELSE processedEvents
  /\ UNCHANGED << mainIdx, subscribed, subscriptions, serviceProof, cb, jobs,
                  unhandledRejections >>

\* getBlockNumber returns: contract.on registers the callback and start()
\* returns; it throws: main().catch logs and calls process.exit(1)
GetBlockNumberReturns(res) ==
  /\ mainPc = "getBlockNumber"
  /\ IF res = "ok"
     THEN /\ subscribed' = subscribed \cup { mainIdx }
          /\ subscriptions' = Append(subscriptions, mainIdx)
          /\ mainIdx' = mainIdx + 1
          /\ mainPc' = "loop"
     ELSE /\ mainPc' = "exited"
          /\ UNCHANGED << subscribed, subscriptions, mainIdx >>
  /\ UNCHANGED << serviceProof, processedEvents, cb, jobs, unhandledRejections >>

(***************************************************************************)
(* Buffer.from(proof, "base64").toString("hex") (relayer.js:268).          *)
(***************************************************************************)
Base64Alphabet ==
  << "A","B","C","D","E","F","G","H","I","J","K","L","M","N","O","P",
     "Q","R","S","T","U","V","W","X","Y","Z","a","b","c","d","e","f",
     "g","h","i","j","k","l","m","n","o","p","q","r","s","t","u","v",
     "w","x","y","z","0","1","2","3","4","5","6","7","8","9","+","/" >>

\* the 6-bit value of a base64 character
Sextet(ch) == (CHOOSE i \in 1..Len(Base64Alphabet) : Base64Alphabet[i] = ch) - 1

\* the characters before the padding
RECURSIVE Unpadded(_)
Unpadded(str) ==
  IF Len(str) = 0 \/ str[1] = "=" THEN << >>
  ELSE << str[1] >> \o Unpadded(Tail(str))

\* a decoder that reads whole groups of four characters only
Base64DecodeWholeGroups(str) ==
  LET chars == Unpadded(str)
      n     == 4 * (Len(chars) \div 4)
      Byte(i) ==
        LET bit == 8 * (i - 1)
            k   == bit \div 6 + 1
            off == bit % 6
            two == Sextet(chars[k]) * 64 + Sextet(chars[k + 1])
        IN  (two \div (2 ^ (4 - off))) % 256
  IN  [i \in 1..((n * 6) \div 8) |-> Byte(i)]

\* every 8 bits of the stream of sextets make one byte; a rest is dropped
Base64Decode(str) ==
  LET chars == Unpadded(str)
      n     == Len(chars)
      Byte(i) ==
        LET bit == 8 * (i - 1)
            k   == bit \div 6 + 1
            off == bit % 6
            two == Sextet(chars[k]) * 64 + Sextet(chars[k + 1])
        IN  (two \div (2 ^ (4 - off))) % 256
  IN  [i \in 1..((n * 6) \div 8) |-> Byte(i)]

\* two hexadecimal digits per byte
RECURSIVE ToHex(_)
ToHex(bytes) ==
  IF Len(bytes) = 0 THEN << >>
  ELSE << bytes[1] \div 16, bytes[1] % 16 >> \o ToHex(Tail(bytes))

(***************************************************************************)
(* The ValueSet callback (relayer.js:63-172).                              *)
(***************************************************************************)
\* a dedup check that never finds the event
HasNothing(c, eventId) == FALSE

\* a dedup check against one set shared by all listeners
HasInAnyListener(c, eventId) == \E d \in ChainKeys : eventId \in processedEvents[d]

\* this.processedEvents.has(eventId) (relayer.js:79)
Has(c, eventId) == eventId \in processedEvents[c]

\* The try blocks of the callback: the inner one (relayer.js:145-167) is
\* around the call of handleValueSetEvent, the outer one (relayer.js:74-170)
\* around everything else.  The answer is the catch that logs an error
\* thrown at `stage`; "uncaught" would leave the callback as a rejection.
CatchOfInnerOnly(stage) ==
  IF stage = "handleValueSetEvent" THEN "handlingError" ELSE "uncaught"

CatchOf(stage) ==
  IF stage = "handleValueSetEvent" THEN "handlingError"
  ELSE IF stage \in { "has", "getBlock", "getTransactionReceipt", "toUtf8String" }
       THEN "processingError"
       ELSE "uncaught"

\* the callback has returned: the locals of handleValueSetEvent are gone
Returned(r) ==
  [r EXCEPT !.pc = "done",
            !.destinationChain = 0, !.jobId = 0, !.attempts = 0, !.delay = 0,
            !.proofResponse = NoResponse, !.proofInBytes = << >>]

\* the invocation after `err` was thrown at `stage` and logged by the catch
Thrown(r, stage, err) ==
  [Returned(r) EXCEPT !.outcome = CatchOf(stage), !.error = err]

\* invocation s becomes r
Becomes(s, r) ==
  /\ cb' = [cb EXCEPT ![s] = r]
  /\ unhandledRejections' =
       IF r.outcome = "uncaught" THEN unhandledRejections + 1 ELSE unhandledRejections

\* a subscription that holds a delivery back while a callback is in flight
DeliverWhenIdle(c, log) ==
  /\ Alive
  /\ c \in subscribed
  /\ Delivered < MaxDeliveries
  /\ \A t \in Slots : ~InFlight(t)
  /\ LET s == Delivered + 1
         r == [IdleCb EXCEPT !.chain = c, !.log = log,
                             !.seen = Has(c, EventId(log)),
                             !.concurrent = {}]
     IN  IF r.seen
         THEN Becomes(s, [r EXCEPT !.pc = "done", !.outcome = "skipped"])
         ELSE Becomes(s, [r EXCEPT !.pc = "getBlock", !.calls.getBlock = 1])
  /\ UNCHANGED << mainPc, mainIdx, subscribed, subscriptions, serviceProof, processedEvents, jobs >>

\* The subscription of chain c delivers `log`: the callback computes the
\* event id, returns if the set has it, and else awaits provider.getBlock.
Deliver(c, log) ==
  /\ Alive
  /\ c \in subscribed
  /\ Delivered < MaxDeliveries
  /\ LET s == Delivered + 1
         r == [IdleCb EXCEPT !.chain = c, !.log = log,
                             !.seen = Has(c, EventId(log)),
                             !.concurrent = { t \in Slots : InFlight(t) }]
     IN  IF Has(c, EventId(log))
         THEN Becomes(s, [r EXCEPT !.pc = "done", !.outcome = "skipped"])
         ELSE Becomes(s, [r EXCEPT !.pc = "getBlock", !.calls.getBlock = 1])
  /\ UNCHANGED << mainPc, mainIdx, subscribed, subscriptions, serviceProof, processedEvents, jobs >>

\* provider.getBlock returns (relayer.js:84), then the callback awaits
\* event.log.getTransactionReceipt (relayer.js:87)
GetBlockReturns(s, res) ==
  /\ Alive
  /\ cb[s].pc = "getBlock"
  /\ IF res = "ok"
     THEN Becomes(s, [cb[s] EXCEPT !.pc = "getTransactionReceipt",
                                   !.calls.getReceipt = @ + 1])
     ELSE Becomes(s, Thrown(cb[s], "getBlock", "getBlock"))
  /\ UNCHANGED << mainPc, mainIdx, subscribed, subscriptions, serviceProof, processedEvents, jobs >>

(***************************************************************************)
(* handleValueSetEvent (relayer.js:175-309).                               *)
(***************************************************************************)
\* const delay = attempts === 0 ? 10000 : 5000 (relayer.js:236)
Delay(attempts) == IF attempts = 0 THEN FirstDelay ELSE NextDelay

\* a loop condition that also reads the status and stops on a failed job
NeedsPollUnlessFailed(proofResponse) ==
  /\ proofResponse.status # "failed"
  /\ \/ ~proofResponse.hasResult
     \/ proofResponse.proof = NoProof

\* the condition of the while (relayer.js:237)
NeedsPoll(proofResponse) ==
  \/ ~proofResponse.hasResult
  \/ proofResponse.proof = NoProof

\* an off-by-one ceiling: attempts > 10
AttemptsExhaustedLate(attempts) == attempts > MaxAttempts

\* if (attempts >= 10) (relayer.js:238)
AttemptsExhausted(attempts) == attempts >= MaxAttempts

\* resuming the first job that was requested for the same coordinates
QueryParamsResumed(r) ==
  CHOOSE j \in 1..Len(jobs) :
    /\ jobs[j].sourceChainId = jobs[r.jobId].sourceChainId
    /\ jobs[j].blockNumber = jobs[r.jobId].blockNumber
    /\ jobs[j].positionInBlock = jobs[r.jobId].positionInBlock
    /\ \A i \in 1..(j - 1) :
         \/ jobs[i].sourceChainId # jobs[r.jobId].sourceChainId
         \/ jobs[i].blockNumber # jobs[r.jobId].blockNumber
         \/ jobs[i].positionInBlock # jobs[r.jobId].positionInBlock

\* params of receipt_queryProof (relayer.js:248)
QueryParams(r) == r.jobId

\* The head of the while loop (relayer.js:237-241) and what follows the
\* loop up to the await of estimateGas (relayer.js:261-290).
LoopHead(r) ==
  IF NeedsPoll(r.proofResponse)
  THEN IF AttemptsExhausted(r.attempts)
       THEN Thrown(r, "handleValueSetEvent", "proofTimeout")
       ELSE [r EXCEPT !.pc = "sleep", !.slept = r.delay]
  ELSE LET proofInBytes == ToHex(Base64Decode(r.proofResponse.proof))
       IN  [r EXCEPT !.pc = "estimateGas",
                     !.proofInBytes = proofInBytes,
                     !.estimatedWith = << IndexArg, proofInBytes >>,
                     !.calls.estimateGas = @ + 1]

\* The start of handleValueSetEvent up to the await of the proof request
\* (relayer.js:176-216); without a destination chain it logs and returns.
HandleValueSetEvent(r) ==
  LET destinationChainId == toString(r.log.destinationChainId)
      destinationChain   == FindDestinationChain(destinationChainId)
  IN  IF destinationChain = 0
      THEN [r EXCEPT !.pc = "handled", !.error = "noConfiguration"]
      ELSE [r EXCEPT !.pc = "requestProof",
                     !.destinationChain = destinationChain,
                     !.calls.requestProof = @ + 1]

\* getTransactionReceipt returns: the callback logs the event (decoding the
\* value as UTF-8, relayer.js:106) and calls handleValueSetEvent
GetReceiptReturns(s, res) ==
  /\ Alive
  /\ cb[s].pc = "getTransactionReceipt"
  /\ IF res # "ok"
     THEN Becomes(s, Thrown(cb[s], "getTransactionReceipt", "getTransactionReceipt"))
     ELSE IF ~Utf8Valid(cb[s].log.value)
          THEN Becomes(s, Thrown(cb[s], "toUtf8String", "toUtf8String"))
          ELSE Becomes(s, HandleValueSetEvent(cb[s]))
  /\ UNCHANGED << mainPc, mainIdx, subscribed, subscriptions, serviceProof, processedEvents, jobs >>

\* a proof request that is issued once more when it fails
RequestReturnsRetry(s, resp) ==
  /\ Alive
  /\ cb[s].pc = "requestProof"
  /\ IF resp.threw \/ resp.status # HttpOk
     THEN /\ IF cb[s].calls.requestProof < 2
             THEN Becomes(s, [cb[s] EXCEPT !.calls.requestProof = @ + 1])
             ELSE Becomes(s, Thrown(cb[s], "handleValueSetEvent", "requestThrew"))
          /\ UNCHANGED jobs
     ELSE /\ jobs' = Append(jobs,
               [sourceChainId      |-> CHAINS[cb[s].chain].chainId,
                destinationChainId |-> parseInt(toString(cb[s].log.destinationChainId)),
                blockNumber        |-> cb[s].log.blockNumber,
                positionInBlock    |-> cb[s].log.positionInBlock,
                requester          |-> s])
          /\ Becomes(s, [cb[s] EXCEPT !.jobId = Len(jobs) + 1,
                                      !.attempts = 0,
                                      !.delay = FirstDelay,
                                      !.proofResponse = NoResponse,
                                      !.pc = "sleep",
                                      !.slept = FirstDelay])
  /\ UNCHANGED << mainPc, mainIdx, subscribed, subscriptions, serviceProof, processedEvents >>

\* the proof request returns (relayer.js:198-241): a status other than 200
\* throws, else the service's result is the jobId and the loop is entered
RequestReturns(s, resp) ==
  /\ Alive
  /\ cb[s].pc = "requestProof"
  /\ IF resp.threw
     THEN /\ Becomes(s, Thrown(cb[s], "handleValueSetEvent", "requestThrew"))
          /\ UNCHANGED jobs
     ELSE IF resp.status # HttpOk
          THEN /\ Becomes(s, Thrown(cb[s], "handleValueSetEvent", "requestStatus"))
               /\ UNCHANGED jobs
          ELSE /\ jobs' = Append(jobs,
                    [sourceChainId      |-> CHAINS[cb[s].chain].chainId,
                     destinationChainId |-> parseInt(toString(cb[s].log.destinationChainId)),
                     blockNumber        |-> cb[s].log.blockNumber,
                     positionInBlock    |-> cb[s].log.positionInBlock,
                     requester          |-> s])
               /\ Becomes(s, LoopHead([cb[s] EXCEPT !.jobId = Len(jobs) + 1,
                                                    !.attempts = 0,
                                                    !.delay = Delay(0),
                                                    !.proofResponse = NoResponse]))
  /\ UNCHANGED << mainPc, mainIdx, subscribed, subscriptions, serviceProof, processedEvents >>

\* a sleep whose promise is never resolved
SleepNeverReturns(s) ==
  /\ cb[s].pc = "sleep"
  /\ FALSE
  /\ UNCHANGED vars

\* the setTimeout of the loop fires and receipt_queryProof is posted
\* (relayer.js:241-255)
SleepReturns(s) ==
  /\ Alive
  /\ cb[s].pc = "sleep"
  /\ Becomes(s, [cb[s] EXCEPT !.pc = "queryProof",
                              !.polledJob = QueryParams(cb[s]),
                              !.calls.queryProof = @ + 1])
  /\ UNCHANGED << mainPc, mainIdx, subscribed, subscriptions, serviceProof, processedEvents, jobs >>

\* a poll whose failure is logged and counted as one more unsuccessful poll
QueryReturnsCountsFailure(s, resp) ==
  /\ Alive
  /\ cb[s].pc = "queryProof"
  /\ IF resp.threw \/ ~resp.hasResult
     THEN Becomes(s, LoopHead([cb[s] EXCEPT
             !.attempts = @ + 1,
             !.error = IF resp.threw THEN "queryThrew" ELSE "queryNoResult"]))
     ELSE Becomes(s, LoopHead([cb[s] EXCEPT
             !.proofResponse = resp,
             !.attempts = @ + 1,
             !.proofAt = IF resp.proof # NoProof
                         THEN cb[s].calls.queryProof ELSE @]))
  /\ UNCHANGED << mainPc, mainIdx, subscribed, subscriptions, serviceProof, processedEvents, jobs >>

\* receipt_queryProof returns (relayer.js:242-259): reading
\* data.result.status of a body without result throws a TypeError
QueryReturns(s, resp) ==
  /\ Alive
  /\ cb[s].pc = "queryProof"
  /\ IF resp.threw
     THEN Becomes(s, Thrown(cb[s], "handleValueSetEvent", "queryThrew"))
     ELSE IF ~resp.hasResult
          THEN Becomes(s, Thrown(cb[s], "handleValueSetEvent", "queryNoResult"))
          ELSE Becomes(s, LoopHead([cb[s] EXCEPT
                  !.proofResponse = resp,
                  !.attempts = @ + 1,
                  !.proofAt = IF resp.proof # NoProof
                              THEN cb[s].calls.queryProof ELSE @]))
  /\ UNCHANGED << mainPc, mainIdx, subscribed, subscriptions, serviceProof, processedEvents, jobs >>

\* an estimate whose failure is noted but does not stop the submission
AfterEstimateGasIgnored(r, res) ==
  [r EXCEPT !.pc = "setValueFromSource", !.calls.send = @ + 1,
            !.sentWith = << IndexArg, r.proofInBytes >>,
            !.error = IF res = "ok" THEN @ ELSE "estimateGas"]

\* what follows the await of estimateGas (relayer.js:289-298): the
\* transaction is sent with the estimate as its gas limit
AfterEstimateGas(r, res) ==
  IF res = "ok"
  THEN [r EXCEPT !.pc = "setValueFromSource", !.calls.send = @ + 1,
                 !.sentWith = << IndexArg, r.proofInBytes >>]
  ELSE Thrown(r, "handleValueSetEvent", "estimateGas")

\* estimateGas returns or throws
EstimateGasReturns(s, res) ==
  /\ Alive
  /\ cb[s].pc = "estimateGas"
  /\ Becomes(s, AfterEstimateGas(cb[s], res))
  /\ UNCHANGED << mainPc, mainIdx, subscribed, subscriptions, serviceProof, processedEvents, jobs >>

\* a submission whose confirmation is not awaited
SendReturnsNoWait(s, res) ==
  /\ Alive
  /\ cb[s].pc = "setValueFromSource"
  /\ IF res = "ok"
     THEN Becomes(s, [cb[s] EXCEPT !.pc = "handled"])
     ELSE Becomes(s, Thrown(cb[s], "handleValueSetEvent", "setValueFromSource"))
  /\ UNCHANGED << mainPc, mainIdx, subscribed, subscriptions, serviceProof, processedEvents, jobs >>

\* setValueFromSource returns the sent transaction (relayer.js:296-301)
SendReturns(s, res) ==
  /\ Alive
  /\ cb[s].pc = "setValueFromSource"
  /\ IF res = "ok"
     THEN Becomes(s, [cb[s] EXCEPT !.pc = "wait"])
     ELSE Becomes(s, Thrown(cb[s], "handleValueSetEvent", "setValueFromSource"))
  /\ UNCHANGED << mainPc, mainIdx, subscribed, subscriptions, serviceProof, processedEvents, jobs >>

\* a confirmation wait whose failure is logged inside handleValueSetEvent,
\* which then returns normally
WaitReturnsRecords(s, res) ==
  /\ Alive
  /\ cb[s].pc = "wait"
  /\ IF res = "ok"
     THEN Becomes(s, [cb[s] EXCEPT !.pc = "handled", !.confirmed = TRUE])
     ELSE Becomes(s, [cb[s] EXCEPT !.pc = "handled", !.error = "wait"])
  /\ UNCHANGED << mainPc, mainIdx, subscribed, subscriptions, serviceProof, processedEvents, jobs >>

\* tx.wait returns the receipt (relayer.js:301-309): handleValueSetEvent
\* returns
WaitReturns(s, res) ==
  /\ Alive
  /\ cb[s].pc = "wait"
  /\ IF res = "ok"
     THEN Becomes(s, [cb[s] EXCEPT !.pc = "handled", !.confirmed = TRUE])
     ELSE Becomes(s, Thrown(cb[s], "handleValueSetEvent", "wait"))
  /\ UNCHANGED << mainPc, mainIdx, subscribed, subscriptions, serviceProof, processedEvents, jobs >>

\* the await of handleValueSetEvent resumes (relayer.js:146-161)
HandleReturns(s) ==
  /\ Alive
  /\ cb[s].pc = "handled"
  /\ processedEvents' =
       [processedEvents EXCEPT ![cb[s].chain] = @ \cup { EventId(cb[s].log) }]
  /\ Becomes(s, [Returned(cb[s]) EXCEPT !.outcome = "recorded"])
  /\ UNCHANGED << mainPc, mainIdx, subscribed, subscriptions, serviceProof, jobs >>

Next ==
  \/ MainLoop
  \/ \E res \in RpcResults : GetBlockNumberReturns(res)
  \/ \E c \in ChainKeys, log \in Logs : Deliver(c, log)
  \/ \E s \in Slots, res \in RpcResults : GetBlockReturns(s, res)
  \/ \E s \in Slots, res \in RpcResults : GetReceiptReturns(s, res)
  \/ \E s \in Slots, resp \in RequestResponses : RequestReturns(s, resp)
  \/ \E s \in Slots : SleepReturns(s)
  \/ \E s \in Slots, resp \in PollResponses : QueryReturns(s, resp)
  \/ \E s \in Slots, res \in RpcResults : EstimateGasReturns(s, res)
  \/ \E s \in Slots, res \in RpcResults : SendReturns(s, res)
  \/ \E s \in Slots, res \in RpcResults : WaitReturns(s, res)
  \/ \E s \in Slots : HandleReturns(s)

Spec == Init /\ [][Next]_vars

(***************************************************************************)
(* The proofs of the proof service: every sequence of 1..MaxProofBytes     *)
(* bytes out of ByteValues, base64-encoded as the service sends it.        *)
(***************************************************************************)
\* the longest proof, in bytes
MaxProofBytes == 3

ByteValues == { 0, 1, 16, 255 }

RECURSIVE ByteSeqs(_)
ByteSeqs(n) ==
  IF n = 0 THEN { << >> }
  ELSE { Append(b, v) : b \in ByteSeqs(n - 1), v \in ByteValues }

\* base64 with padding: three bytes make four characters
RECURSIVE Base64Encode(_)
Base64Encode(bytes) ==
  LET Ch(v) == Base64Alphabet[v + 1]
  IN  IF Len(bytes) = 0 THEN << >>
      ELSE IF Len(bytes) = 1
           THEN << Ch(bytes[1] \div 4), Ch((bytes[1] % 4) * 16), "=", "=" >>
      ELSE IF Len(bytes) = 2
           THEN << Ch(bytes[1] \div 4),
                   Ch((bytes[1] % 4) * 16 + bytes[2] \div 16),
                   Ch((bytes[2] % 16) * 4), "=" >>
      ELSE << Ch(bytes[1] \div 4),
              Ch((bytes[1] % 4) * 16 + bytes[2] \div 16),
              Ch((bytes[2] % 16) * 4 + bytes[3] \div 64),
              Ch(bytes[3] % 64) >>
           \o Base64Encode(SubSeq(bytes, 4, Len(bytes)))

ServiceProofs ==
  { Base64Encode(b) : b \in UNION { ByteSeqs(n) : n \in 1..MaxProofBytes } }

\* the bytes a contract call gets from the hexadecimal string it is given
RECURSIVE FromHex(_)
FromHex(digits) ==
  IF Len(digits) < 2 THEN << >>
  ELSE << digits[1] * 16 + digits[2] >> \o FromHex(SubSeq(digits, 3, Len(digits)))

(***************************************************************************)
(* One delivery, relayed with any of the proofs.                           *)
(***************************************************************************)
InitProofs ==
  /\ mainPc = "loop"
  /\ mainIdx = 1
  /\ subscribed = {}
  /\ subscriptions = << >>
  /\ serviceProof \in ServiceProofs
  /\ processedEvents = [c \in ChainKeys |-> {}]
  /\ cb = [s \in Slots |-> IdleCb]
  /\ jobs = << >>
  /\ unhandledRejections = 0

NextProofs ==
  \/ MainLoop
  \/ \E res \in RpcResults : GetBlockNumberReturns(res)
  \/ \E c \in ChainKeys, log \in Logs : Delivered = 0 /\ Deliver(c, log)
  \/ \E s \in Slots, res \in RpcResults : GetBlockReturns(s, res)
  \/ \E s \in Slots, res \in RpcResults : GetReceiptReturns(s, res)
  \/ \E s \in Slots, resp \in RequestResponses : RequestReturns(s, resp)
  \/ \E s \in Slots : SleepReturns(s)
  \/ \E s \in Slots, resp \in PollResponses : QueryReturns(s, resp)
  \/ \E s \in Slots, res \in RpcResults : EstimateGasReturns(s, res)
  \/ \E s \in Slots, res \in RpcResults : SendReturns(s, res)
  \/ \E s \in Slots, res \in RpcResults : WaitReturns(s, res)
  \/ \E s \in Slots : HandleReturns(s)

SpecProofs == InitProofs /\ [][NextProofs]_vars

(***************************************************************************)
(* Every external call eventually returns or throws: the continuation of   *)
(* each await is taken when it stays possible.  Nothing makes the          *)
(* subscriptions deliver events.  FairSpec follows one delivery to its     *)
(* end.                                                                    *)
(***************************************************************************)
Fairness ==
  /\ WF_vars(MainLoop)
  /\ WF_vars(\E res \in RpcResults : GetBlockNumberReturns(res))
  /\ \A s \in Slots :
       /\ WF_vars(\E res \in RpcResults : GetBlockReturns(s, res))
       /\ WF_vars(\E res \in RpcResults : GetReceiptReturns(s, res))
       /\ WF_vars(\E resp \in RequestResponses : RequestReturns(s, resp))
       /\ WF_vars(SleepReturns(s))
       /\ WF_vars(\E resp \in PollResponses : QueryReturns(s, resp))
       /\ WF_vars(\E res \in RpcResults : EstimateGasReturns(s, res))
       /\ WF_vars(\E res \in RpcResults : SendReturns(s, res))
       /\ WF_vars(\E res \in RpcResults : WaitReturns(s, res))
       /\ WF_vars(HandleReturns(s))

FairSpec == Init /\ [][NextProofs]_vars /\ Fairness

(***************************************************************************)
(* Vocabulary of the properties.                                           *)
(***************************************************************************)
Started(s) == cb[s].pc # "idle"

Finished(s) == cb[s].pc = "done"

\* two invocations of one listener for the same event identity
SameEvent(s, t) ==
  /\ s # t
  /\ Started(s) /\ Started(t)
  /\ cb[s].chain = cb[t].chain
  /\ EventId(cb[s].log) = EventId(cb[t].log)

\* t had finished when s started
After(t, s) == t < s /\ Started(s) /\ t \notin cb[s].concurrent

\* the errors a relay attempt can end with
PreRelayErrors == { "getBlock", "getTransactionReceipt", "toUtf8String" }

RelayErrors == { "requestThrew", "requestStatus", "queryThrew", "queryNoResult",
                 "proofTimeout", "estimateGas", "setValueFromSource", "wait" }

\* no chain of the configuration has the destination chain id of the log
Unconfigured(log) == \A k \in ChainKeys : CHAINS[k].chainId # log.destinationChainId

\* the calls to the proof service and to destination chains
NoRelayCalls(s) ==
  /\ cb[s].calls.requestProof = 0
  /\ cb[s].calls.queryProof = 0
  /\ cb[s].calls.estimateGas = 0
  /\ cb[s].calls.send = 0

(***************************************************************************)
(* C1: of two deliveries of one event identity to one listener, the second *)
(* starting before the first has finished, at most one reaches the         *)
(* setValueFromSource call.  (The code lets both through.)                 *)
(***************************************************************************)
C1_AtMostOneSubmission ==
  \A s, t \in Slots :
    (SameEvent(s, t) /\ t \in cb[s].concurrent)
      => ~(cb[s].calls.send >= 1 /\ cb[t].calls.send >= 1)

(***************************************************************************)
(* C2: an event id is in processedEvents only if an attempt for it         *)
(* obtained a proof and had its destination transaction confirmed.  (The   *)
(* code also records an event whose destination chain is not configured.)  *)
(***************************************************************************)
C2_RecordedOnlyAfterConfirmation ==
  \A c \in ChainKeys : \A id \in processedEvents[c] :
    \E s \in Slots :
      /\ cb[s].chain = c
      /\ EventId(cb[s].log) = id
      /\ cb[s].proofAt >= 1
      /\ cb[s].confirmed

(***************************************************************************)
(* C3: once a delivery has relayed its event and recorded it, a delivery   *)
(* of the same event identity to the same listener that starts afterwards  *)
(* issues no call at all, so the only submission is the one of the         *)
(* successful delivery.                                                    *)
(***************************************************************************)
C3_NoOpAfterSuccess ==
  \A t, s \in Slots :
    (SameEvent(s, t) /\ After(t, s) /\ cb[t].confirmed /\ cb[t].outcome = "recorded")
      => /\ cb[s].calls = NoCalls
         /\ Finished(s)
         /\ cb[s].outcome = "skipped"
         /\ cb[t].calls.send + cb[s].calls.send = 1

C3_Witness ==
  \E t, s \in Slots :
    /\ SameEvent(s, t) /\ After(t, s)
    /\ cb[t].confirmed /\ cb[t].outcome = "recorded"
    /\ Finished(s)

C5_DelaySchedule ==
  \A s \in Slots :
    cb[s].pc = "sleep"
      => cb[s].slept = IF cb[s].calls.queryProof = 0 THEN FirstDelay ELSE NextDelay

(***************************************************************************)
(* C6: a relay attempt for an event whose destination chain id is not      *)
(* configured reports the missing configuration and calls neither the      *)
(* proof service nor a destination chain.                                  *)
(***************************************************************************)
C6_NoDestinationNoCalls ==
  \A s \in Slots :
    (Started(s) /\ Unconfigured(cb[s].log))
      => /\ NoRelayCalls(s)
         /\ cb[s].pc \notin { "requestProof", "sleep", "queryProof", "estimateGas",
                              "setValueFromSource", "wait" }
         /\ (cb[s].pc = "handled" \/ cb[s].outcome = "recorded")
              => cb[s].error = "noConfiguration"

C6_Witness ==
  \E s \in Slots :
    /\ Unconfigured(cb[s].log)
    /\ cb[s].pc = "handled"
    /\ cb[s].error = "noConfiguration"

(***************************************************************************)
(* C7: an attempt whose gas estimation throws sends no transaction, has    *)
(* the error logged by the catch around handleValueSetEvent, and does not  *)
(* add the event id to processedEvents.                                    *)
(***************************************************************************)
C7_EstimateFailure ==
  \A s \in Slots :
    cb[s].error = "estimateGas"
      => /\ cb[s].calls.send = 0
         /\ Finished(s)
         /\ cb[s].outcome = "handlingError"
         /\ EventId(cb[s].log) \in processedEvents[cb[s].chain]
              => \E t \in Slots : SameEvent(s, t) /\ cb[t].outcome = "recorded"

C7_Witness ==
  \E s \in Slots :
    /\ cb[s].error = "estimateGas"
    /\ cb[s].calls.estimateGas = 1
    /\ EventId(cb[s].log) \notin processedEvents[cb[s].chain]

(***************************************************************************)
(* C8: every error raised while a callback handles an event is caught by   *)
(* one of the callback's catch blocks (the outer one before the relay, the *)
(* inner one during it): none leaves the callback as a rejection, and the  *)
(* listener of every invocation stays subscribed while the process runs.   *)
(***************************************************************************)
C8_ErrorsCaught ==
  /\ unhandledRejections = 0
  /\ \A s \in Slots :
       /\ cb[s].outcome # "uncaught"
       /\ cb[s].error \in PreRelayErrors => cb[s].outcome = "processingError"
       /\ cb[s].error \in RelayErrors => cb[s].outcome = "handlingError"
       /\ (Alive /\ Started(s)) => cb[s].chain \in subscribed

C8_Witness ==
  \E t, s \in Slots :
    /\ After(t, s)
    /\ cb[t].chain = cb[s].chain
    /\ cb[t].error \in PreRelayErrors \cup RelayErrors
    /\ cb[s].outcome = "recorded"
    /\ cb[s].confirmed

C10_StopsOnFailedJob ==
  \A s \in Slots :
    cb[s].proofResponse.status = "failed" => cb[s].pc # "queryProof"

(***************************************************************************)
(* C10 amended: polling goes on exactly while the last response carried no *)
(* proof and fewer than 10 polls were made; the status is not read, so     *)
(* after a response that reports a failed job the attempt sleeps and polls *)
(* the job again.                                                          *)
(***************************************************************************)
C10_PollsUntilProofOrCeiling ==
  \A s \in Slots :
    /\ cb[s].proofResponse.status = "failed"
         => cb[s].pc \in { "sleep", "queryProof" } /\ cb[s].attempts < MaxAttempts
    /\ cb[s].pc \in { "sleep", "queryProof" }
         => cb[s].proofResponse.proof = NoProof /\ cb[s].attempts < MaxAttempts
    /\ (cb[s].proofResponse.hasResult /\ cb[s].proofResponse.proof # NoProof)
         => cb[s].pc \in { "estimateGas", "setValueFromSource", "wait", "handled" }

C10_Witness ==
  \E s \in Slots :
    /\ cb[s].pc = "queryProof"
    /\ cb[s].proofResponse.status = "failed"
    /\ cb[s].calls.queryProof = MaxAttempts

(***************************************************************************)
(* C11: the steps of a relay attempt come in one order and at most once    *)
(* each, except the polls: a poll needs the request, the gas estimation    *)
(* needs a poll that carried a proof, the submission needs the estimation, *)
(* the confirmation needs the submission, and the event id is recorded     *)
(* only after the confirmation.  An attempt that ends in success made      *)
(* exactly one request, as many polls as the number of the poll that       *)
(* carried the proof, one estimation and one submission.                   *)
(***************************************************************************)
C11_StepsInOrder ==
  \A s \in Slots :
    /\ cb[s].calls.requestProof <= 1
    /\ cb[s].calls.estimateGas <= 1
    /\ cb[s].calls.send <= 1
    /\ cb[s].calls.queryProof >= 1 => cb[s].calls.requestProof = 1
    /\ cb[s].calls.estimateGas = 1
         => cb[s].proofAt >= 1 /\ cb[s].calls.queryProof = cb[s].proofAt
    /\ cb[s].pc = "estimateGas" => cb[s].calls.send = 0
    /\ cb[s].calls.send = 1
         => /\ cb[s].calls.estimateGas = 1
            /\ cb[s].proofAt >= 1
            /\ cb[s].sentWith # << >>
    /\ cb[s].pc = "setValueFromSource" => ~cb[s].confirmed
    /\ cb[s].confirmed => cb[s].calls.send = 1
    /\ (cb[s].error = "none" /\ (cb[s].pc = "handled" \/ cb[s].outcome = "recorded"))
         => /\ cb[s].confirmed
            /\ cb[s].calls.requestProof = 1
            /\ cb[s].calls.queryProof = cb[s].proofAt
            /\ cb[s].calls.estimateGas = 1
            /\ cb[s].calls.send = 1
    /\ (Started(s) /\ ~Unconfigured(cb[s].log)
          /\ EventId(cb[s].log) \in processedEvents[cb[s].chain])
         => \E t \in Slots :
              /\ cb[t].chain = cb[s].chain
              /\ EventId(cb[t].log) = EventId(cb[s].log)
              /\ cb[t].confirmed

\* polls 1 and 2 carried no proof, poll 3 did
C11_Witness ==
  \E s \in Slots :
    /\ cb[s].outcome = "recorded"
    /\ cb[s].confirmed
    /\ cb[s].proofAt = 3
    /\ cb[s].calls.queryProof = 3
    /\ cb[s].calls.send = 1

(***************************************************************************)
(* C12: an attempt issues at most one receipt_requestProof; when that call *)
(* throws or returns a status other than 200 the attempt ends with the     *)
(* error, having issued one request, no poll and no destination call.      *)
(***************************************************************************)
C12_RequestFailureIsTerminal ==
  \A s \in Slots :
    /\ cb[s].calls.requestProof <= 1
    /\ cb[s].error \in { "requestThrew", "requestStatus" }
         => /\ Finished(s)
            /\ cb[s].outcome = "handlingError"
            /\ cb[s].calls.requestProof = 1
            /\ cb[s].calls.queryProof = 0
            /\ cb[s].calls.estimateGas = 0
            /\ cb[s].calls.send = 0
            /\ cb[s].polledJob = 0

C12_Witness ==
  \E s, t \in Slots :
    /\ cb[s].error = "requestThrew"
    /\ cb[t].error = "requestStatus"

(***************************************************************************)
(* C13: main() starts the listeners one after another in the order of the  *)
(* configuration: the callbacks are registered in that order, each chain   *)
(* once, the listener being started is registered only when all before it  *)
(* are, and when main() is done every chain has its one subscription.      *)
(***************************************************************************)
C13_SequentialBoot ==
  /\ subscriptions = [i \in 1..Len(subscriptions) |-> i]
  /\ subscribed = { subscriptions[i] : i \in 1..Len(subscriptions) }
  /\ Len(subscriptions) = mainIdx - 1
  /\ mainPc = "getBlockNumber"
       => /\ mainIdx \in ChainKeys
          /\ mainIdx \notin subscribed
          /\ \A c \in ChainKeys : c < mainIdx => c \in subscribed
  /\ mainPc = "watching"
       => /\ subscribed = ChainKeys
          /\ Len(subscriptions) = Len(CHAINS)

C13_Witness ==
  /\ mainPc = "watching"
  /\ subscriptions = << 1, 2 >>

(***************************************************************************)
(* C14: the bytes given to the destination contract are the bytes the      *)
(* proof string of the last poll response encodes, no byte more or less    *)
(* (encoding them again gives the string back), and the gas estimation and *)
(* the transaction get the same arguments, with index 0.                   *)
(***************************************************************************)
C14_ProofBytesExact ==
  \A s \in Slots :
    /\ (cb[s].pc \in { "estimateGas", "setValueFromSource", "wait" }
          \/ (cb[s].pc = "handled" /\ cb[s].confirmed))
         => cb[s].proofResponse.proof = serviceProof
    /\ cb[s].estimatedWith # << >>
         => /\ cb[s].estimatedWith[1] = 0
            /\ Base64Encode(FromHex(cb[s].estimatedWith[2])) = serviceProof
            /\ Len(cb[s].estimatedWith[2]) = 2 * Len(FromHex(cb[s].estimatedWith[2]))
    /\ cb[s].sentWith # << >> => cb[s].sentWith = cb[s].estimatedWith
    /\ cb[s].calls.send = 1 => cb[s].sentWith # << >>

\* a proof of two bytes, which base64 pads, was submitted
C14_Witness ==
  \E s \in Slots :
    /\ cb[s].calls.send = 1
    /\ serviceProof = << "A", "B", "A", "=" >>
    /\ FromHex(cb[s].sentWith[2]) = << 0, 16 >>

(***************************************************************************)
(* C15: an attempt whose transaction was sent and whose tx.wait then       *)
(* throws ends unrecorded: the transaction is out, the event id is not in  *)
(* processedEvents through this attempt, and a later delivery of the same  *)
(* event is suppressed only if some other invocation recorded it, so it    *)
(* can send a second transaction (the witness).                            *)
(***************************************************************************)
C15_WaitFailureLeavesUnrecorded ==
  \A s \in Slots :
    cb[s].error = "wait"
      => /\ Finished(s)
         /\ cb[s].outcome = "handlingError"
         /\ cb[s].calls.send = 1
         /\ cb[s].sentWith # << >>
         /\ ~cb[s].confirmed
         /\ EventId(cb[s].log) \in processedEvents[cb[s].chain]
              => \E u \in Slots : SameEvent(s, u) /\ cb[u].outcome = "recorded"
         /\ \A t \in Slots :
              (SameEvent(s, t) /\ After(s, t) /\ cb[t].seen)
                => \E u \in Slots : SameEvent(s, u) /\ cb[u].outcome = "recorded"

\* the transaction of the first attempt is out, the id is not recorded, and
\* the redelivery has sent a second transaction
C15_Witness ==
  \E s, t \in Slots :
    /\ SameEvent(s, t) /\ After(s, t)
    /\ cb[s].error = "wait"
    /\ cb[s].calls.send = 1
    /\ cb[t].calls.send = 1
    /\ cb[t].pc = "wait"
    /\ EventId(cb[s].log) \notin processedEvents[cb[s].chain]

(***************************************************************************)
(* C16 as stated: when every external call eventually returns or throws,   *)
(* every started callback invocation eventually finishes.  (A              *)
(* getBlockNumber that throws while a later listener starts makes          *)
(* main().catch exit the process with invocations of the earlier           *)
(* listeners still under way.)                                             *)
(***************************************************************************)
C16_EveryInvocationFinishes ==
  \A s \in Slots : Started(s) ~> Finished(s)

(***************************************************************************)
(* C16 amended: when every external call eventually returns or throws,     *)
(* every started callback invocation eventually finishes unless the        *)
(* process exits; it issues at most 1 proof request, 10 polls, 1 gas       *)
(* estimation and 1 submission, and when it has finished the event id is   *)
(* in processedEvents or an error was logged.                              *)
(***************************************************************************)
C16_FinishesWhileAlive ==
  /\ \A s \in Slots : Started(s) ~> (Finished(s) \/ ~Alive)
  /\ [](\A s \in Slots :
          /\ cb[s].calls.requestProof <= 1
          /\ cb[s].calls.queryProof <= MaxAttempts
          /\ cb[s].calls.estimateGas <= 1
          /\ cb[s].calls.send <= 1
          /\ Finished(s)
               => \/ EventId(cb[s].log) \in processedEvents[cb[s].chain]
                  \/ cb[s].error \in PreRelayErrors \cup RelayErrors)

\* the longest attempt: the 10th poll carried the proof and it was recorded
C16_Witness ==
  \E s \in Slots :
    /\ Finished(s)
    /\ cb[s].outcome = "recorded"
    /\ cb[s].calls.queryProof = MaxAttempts
    /\ cb[s].calls.send = 1

(***************************************************************************)
(* C17: relay attempts are independent.  While the process is alive, every *)
(* subscribed listener can start a callback for any event whatever the     *)
(* other invocations are doing, every invocation in flight has a           *)
(* continuation that can run, a step of one invocation changes no other    *)
(* invocation, and a delivery is suppressed only by the recorded identity  *)
(* of the same event on the same listener, never by an attempt that is     *)
(* suspended or has failed.                                                *)
(***************************************************************************)
\* some await of invocation s resumes
Continues(s) ==
  \/ \E res \in RpcResults : GetBlockReturns(s, res)
  \/ \E res \in RpcResults : GetReceiptReturns(s, res)
  \/ \E resp \in RequestResponses : RequestReturns(s, resp)
  \/ SleepReturns(s)
  \/ \E resp \in PollResponses : QueryReturns(s, resp)
  \/ \E res \in RpcResults : EstimateGasReturns(s, res)
  \/ \E res \in RpcResults : SendReturns(s, res)
  \/ \E res \in RpcResults : WaitReturns(s, res)
  \/ HandleReturns(s)

C17_AttemptsIndependent ==
  /\ [](Alive =>
          /\ \A c \in subscribed, log \in Logs :
               Delivered < MaxDeliveries => ENABLED Deliver(c, log)
          /\ \A s \in Slots : InFlight(s) => ENABLED Continues(s)
          /\ \A s \in Slots :
               cb[s].seen
                 => /\ EventId(cb[s].log) \in processedEvents[cb[s].chain]
                    /\ \E t \in Slots : SameEvent(s, t) /\ cb[t].outcome = "recorded")
  /\ [][\A s, t \in Slots :
          (s # t /\ cb'[s] # cb[s]) => cb'[t] = cb[t]]_vars

\* an attempt is blocked in its confirmation wait while the attempt for
\* another event, started on the same listener after it, has completed
C17_Witness ==
  \E s, t \in Slots :
    /\ t < s
    /\ t \in cb[s].concurrent
    /\ cb[s].chain = cb[t].chain
    /\ EventId(cb[s].log) # EventId(cb[t].log)
    /\ cb[t].pc = "wait"
    /\ Finished(s)
    /\ cb[s].outcome = "recorded"
    /\ EventId(cb[s].log) \in processedEvents[cb[s].chain]

(***************************************************************************)
(* C18: the set of processed events is private to one listener.  A step    *)
(* that adds an identity to one listener's set leaves the set of every     *)
(* other listener unchanged, and a delivery is suppressed only when the    *)
(* set of the listener it was delivered to holds its identity.             *)
(***************************************************************************)
C18_RegistryPerListener ==
  /\ [](\A s \in Slots :
          cb[s].seen => EventId(cb[s].log) \in processedEvents[cb[s].chain])
  /\ [](\A s \in Slots :
          (Started(s) /\ ~cb[s].seen) => cb[s].calls.getBlock = 1)
  /\ [][\A c, d \in ChainKeys :
          (c # d /\ processedEvents'[c] # processedEvents[c])
            => processedEvents'[d] = processedEvents[d]]_vars
  /\ [][\A c \in ChainKeys, s \in Slots :
          (~Started(s) /\ Started(s)' /\ EventId(cb'[s].log) \notin processedEvents[c]
             /\ cb'[s].chain = c)
            => ~cb'[s].seen]_vars

\* an identity is recorded by one listener and the delivery of the same
\* identity to the other listener, made after that, is not suppressed
C18_Witness ==
  \E s, t \in Slots :
    /\ After(t, s)
    /\ cb[t].chain # cb[s].chain
    /\ EventId(cb[t].log) = EventId(cb[s].log)
    /\ cb[t].outcome = "recorded"
    /\ EventId(cb[t].log) \in processedEvents[cb[t].chain]
    /\ EventId(cb[s].log) \notin processedEvents[cb[s].chain]
    /\ ~cb[s].seen
    /\ cb[s].calls.getBlock = 1

(***************************************************************************)
(* C19: a poll that throws, or whose response has no result object, ends   *)
(* the relay attempt at once with an error: the invocation is finished     *)
(* with the error logged by the catch around handleValueSetEvent, it made  *)
(* between 1 and 10 polls and got no proof, it made no call to the         *)
(* destination chain, and it did not record the identity (the identity is  *)
(* in the set only if another invocation for the same event recorded it).  *)
(***************************************************************************)
C19_BadPollEndsAttempt ==
  \A s \in Slots :
    cb[s].error \in { "queryThrew", "queryNoResult" }
      => /\ Finished(s)
         /\ cb[s].outcome = "handlingError"
         /\ cb[s].calls.queryProof \in 1..MaxAttempts
         /\ cb[s].proofAt = 0
         /\ cb[s].calls.estimateGas = 0
         /\ cb[s].calls.send = 0
         /\ ~cb[s].confirmed
         /\ EventId(cb[s].log) \in processedEvents[cb[s].chain]
              => \E u \in Slots : SameEvent(s, u) /\ cb[u].outcome = "recorded"

\* one attempt ended by a throwing poll and one by a response without
\* result, each after fewer than 10 polls, and the identity is not recorded
C19_Witness ==
  \E s, t \in Slots :
    /\ cb[s].error = "queryThrew"
    /\ cb[t].error = "queryNoResult"
    /\ Finished(s) /\ Finished(t)
    /\ cb[s].calls.queryProof = 1
    /\ cb[t].calls.queryProof \in 2..(MaxAttempts - 1)
    /\ EventId(cb[s].log) \notin processedEvents[cb[s].chain]
    /\ EventId(cb[t].log) \notin processedEvents[cb[t].chain]

(***************************************************************************)
(* C20: when the block query, the receipt query or the UTF-8 decoding of   *)
(* the value fails, the callback ends in the outer catch without calling   *)
(* handleValueSetEvent: no call to the proof service or to a destination   *)
(* chain was made and the invocation did not record the identity.  Hence   *)
(* an event whose value is not valid UTF-8 is never relayed and never      *)
(* recorded, and a redelivery of it is never suppressed.                   *)
(***************************************************************************)
\* no UTF-8 sequence starts with a byte above 0xF7
StartsWithNoUtf8Lead(log) == Len(log.value) >= 1 /\ log.value[1] >= 248

C20_PreRelayFailureRelaysNothing ==
  \A s \in Slots :
    /\ cb[s].error \in PreRelayErrors
         => /\ Finished(s)
            /\ cb[s].outcome = "processingError"
            /\ NoRelayCalls(s)
            /\ ~cb[s].confirmed
            /\ EventId(cb[s].log) \in processedEvents[cb[s].chain]
                 => \E u \in Slots : SameEvent(s, u) /\ cb[u].outcome = "recorded"
    /\ (Started(s) /\ StartsWithNoUtf8Lead(cb[s].log))
         => /\ NoRelayCalls(s)
            /\ cb[s].pc \in { "getBlock", "getTransactionReceipt", "done" }
            /\ cb[s].outcome \in { "none", "processingError" }
            /\ ~cb[s].seen
            /\ \A c \in ChainKeys : EventId(cb[s].log) \notin processedEvents[c]

\* an event with a value that is not UTF-8 is delivered, fails at the
\* decoding, is delivered to the same listener again and fails again
C20_Witness ==
  \E s, t \in Slots :
    /\ SameEvent(s, t) /\ After(t, s)
    /\ StartsWithNoUtf8Lead(cb[s].log)
    /\ cb[t].error = "toUtf8String" /\ cb[s].error = "toUtf8String"
    /\ Finished(t) /\ Finished(s)
    /\ cb[s].calls.getReceipt = 1
    /\ NoRelayCalls(s) /\ NoRelayCalls(t)

====
